---- MODULE Spec2Model ----
(***************************************************************************)
(* Model of package verify (BIP-0137 signed-message verification).         *)
(*                                                                         *)
(* Strings are sequences: a base64 string is a sequence of symbols (the    *)
(* alphabet index 0..63, the padding '=', a line break, or a character     *)
(* outside the alphabet), a message is a sequence of bytes, a decoded      *)
(* signature is a sequence of 65 bytes <<header>> \o R \o S.               *)
(*                                                                         *)
(* The elliptic-curve arithmetic of the dependency is abstracted: the      *)
(* signature of message m by key k is the byte string RBytes(k) \o         *)
(* SBytes(m) with recovery id KeyIDOf(k, m); recovery from any other       *)
(* (R, S, id, message) yields a key nobody holds, or fails.  Addresses are *)
(* records [type, net, key, comp] standing for the encoded string.         *)
(***************************************************************************)
EXTENDS Integers, Sequences, FiniteSets, TLC

\* ------------------------------------------------------------------ bounds
NumKeys == 2
NumMsgChars == 2

Keys == 1..NumKeys
NilKey == 0
JunkKey == NumKeys + 1

\* Messages: the empty one and the one-byte ones.
Messages == {<<>>} \cup {<<c>> : c \in 1..NumMsgChars}

Nets == {"mainnet", "testnet3"}
MainNetParams == "mainnet"

\* ------------------------------------------------------------------ errors
\* An error value: msg is its text, split at the ": " joints of the wrapping;
\* wraps is the set of sentinel errors errors.Is finds in its chain.
Nil == [msg |-> <<>>, wraps |-> {}]
ErrVerificationTimeout == [msg |-> <<"signature verification timed out">>, wraps |-> {"ErrVerificationTimeout"}]
ErrInvalidSignature == [msg |-> <<"invalid signature">>, wraps |-> {"ErrInvalidSignature"}]
ErrEmptyAddress == [msg |-> <<"empty bitcoin address">>, wraps |-> {"ErrEmptyAddress"}]
ErrEmptyMessage == [msg |-> <<"empty message">>, wraps |-> {"ErrEmptyMessage"}]
ErrEmptySignature == [msg |-> <<"empty signature">>, wraps |-> {"ErrEmptySignature"}]
ErrEmptyPubKey == [msg |-> <<"empty public key">>, wraps |-> {}]

\* errors.New / fmt.Errorf without %w
NewError(text) == [msg |-> <<text>>, wraps |-> {}]
\* fmt.Errorf("<prefix>: %w", e)
WrapW(prefix, e) == [msg |-> <<prefix>> \o e.msg, wraps |-> e.wraps]

\* ------------------------------------------------------------------ base64
PAD == 64
NL == 65
BAD == 66
B64Data == 0..63

Pow(b, e) == IF e = 0 THEN 1 ELSE IF e = 1 THEN b ELSE IF e = 2 THEN b * b ELSE b * b * b

\* base64.StdEncoding.EncodeToString
EncodeToString(bytes) ==
    LET n == Len(bytes)
        at(i) == IF i <= n THEN bytes[i] ELSE 0
    IN [j \in 1..(4 * ((n + 2) \div 3)) |->
          LET q == (j - 1) \div 4
              r == (j - 1) % 4
              v == at(3 * q + 1) * 65536 + at(3 * q + 2) * 256 + at(3 * q + 3)
          IN IF r = 2 /\ 3 * q + 2 > n THEN PAD
             ELSE IF r = 3 /\ 3 * q + 3 > n THEN PAD
             ELSE (v \div Pow(64, 3 - r)) % 64]

\* base64.StdEncoding.DecodeString: line breaks are skipped, the rest is quanta
\* of four symbols, padding only closes the last quantum.
DecodeString(str) ==
    LET s == SelectSeq(str, LAMBDA c : c # NL)
        len == Len(s)
        wellFormed ==
            /\ len % 4 = 0
            /\ \A j \in 1..len :
                  \/ s[j] \in B64Data
                  \/ /\ s[j] = PAD
                     /\ j >= len - 1
                     /\ (j = len - 1 => s[len] = PAD)
        pads == IF len = 0 THEN 0
                ELSE IF s[len] # PAD THEN 0
                ELSE IF s[len - 1] = PAD THEN 2 ELSE 1
        sym(j) == IF s[j] = PAD THEN 0 ELSE s[j]
    IN IF ~wellFormed
       THEN [ok |-> FALSE, bytes |-> <<>>, err |-> NewError("illegal base64 data")]
       ELSE [ok |-> TRUE,
             bytes |-> [i \in 1..(3 * (len \div 4) - pads) |->
                          LET q == (i - 1) \div 3
                              r == (i - 1) % 3
                              v == sym(4 * q + 1) * 262144 + sym(4 * q + 2) * 4096
                                   + sym(4 * q + 3) * 64 + sym(4 * q + 4)
                          IN (v \div Pow(256, 2 - r)) % 256],
             err |-> Nil]

\* ------------------------------------------------------------------ addresses
\* An address string, by what it decodes to.  "" is EmptyAddress; a string that
\* is no address at all is GarbageAddress.
EmptyAddress == [type |-> "empty", net |-> "none", key |-> NilKey, comp |-> FALSE]
GarbageAddress == [type |-> "garbage", net |-> "none", key |-> NilKey, comp |-> FALSE]
AddrTypes == {"P2PKH", "P2SH", "P2WPKH"}

\* btcutil.NewAddressPubKeyHash(Hash160(serialized key), net).EncodeAddress()
P2PKHAddress(key, comp, net) == [type |-> "P2PKH", net |-> net, key |-> key, comp |-> comp]
\* the P2SH wrapping of the key's witness program
P2SHAddress(key, net) == [type |-> "P2SH", net |-> net, key |-> key, comp |-> TRUE]
\* the bech32 encoding of the key's witness program
P2WPKHAddress(key, net) == [type |-> "P2WPKH", net |-> net, key |-> key, comp |-> TRUE]

\* btcutil.DecodeAddress(address, net) succeeds
AddressDecodes(address, net) == address.type \in AddrTypes /\ address.net = net

\* ------------------------------------------------------------------ signatures
SigLen == 65
HalfLen == 32

\* The header ranges of BIP-0137
Uncompressed == 27..30
Compressed == 31..34
SegwitP2SH == 35..38
SegwitBech32 == 39..42
AllFlags == 27..42

\* Abstract ECDSA: the (R, S) of key k over message m, and its recovery id.
RBytes(k) == [i \in 1..HalfLen |-> 16 * k + 1]
SBytes(m) == [i \in 1..HalfLen |->
                IF i = 1 THEN Len(m) + 1 ELSE IF i - 1 <= Len(m) THEN m[i - 1] ELSE 0]
KeyIDOf(k, m) == (k + (IF m = <<>> THEN 0 ELSE m[1])) % 2

IsZero(bytes) == \A i \in 1..Len(bytes) : bytes[i] = 0

\* A recovery that does not bind S to the message
RecoverCompact_IgnoresS(keyID, R, S, message) ==
    IF IsZero(R) \/ IsZero(S) \/ keyID >= 2
    THEN [ok |-> FALSE, key |-> NilKey]
    ELSE IF \E k \in Keys : R = RBytes(k) /\ keyID = KeyIDOf(k, message)
    THEN [ok |-> TRUE, key |-> CHOOSE k \in Keys : R = RBytes(k) /\ keyID = KeyIDOf(k, message)]
    ELSE [ok |-> TRUE, key |-> JunkKey]

\* ecdsa.RecoverCompact on the message's hash: the signer when (R, S, id) is
\* its signature of this message, no key for a zero R or S or an id whose
\* candidate point does not exist, a key nobody holds otherwise.
RecoverCompact(keyID, R, S, message) ==
    IF IsZero(R) \/ IsZero(S) \/ keyID >= 2
    THEN [ok |-> FALSE, key |-> NilKey]
    ELSE IF \E k \in Keys : R = RBytes(k) /\ S = SBytes(message) /\ keyID = KeyIDOf(k, message)
    THEN [ok |-> TRUE,
          key |-> CHOOSE k \in Keys :
                     R = RBytes(k) /\ S = SBytes(message) /\ keyID = KeyIDOf(k, message)]
    ELSE [ok |-> TRUE, key |-> JunkKey]

LibFail(text) == [valid |-> FALSE, err |-> NewError(text)]
LibOk == [valid |-> TRUE, err |-> Nil]

\* The dependency's address validators: the header must be one the address
\* type admits, and the address generated from the recovered key must be the
\* claimed one; every failure is an error.
ValidateAddress(flag, key, address, net) ==
    IF address.type = "P2PKH" THEN
        IF flag \in SegwitP2SH THEN LibFail("cannot use P2PKH for recovery flag 'P2WPKH-P2SH'")
        ELSE IF flag \in SegwitBech32 THEN LibFail("cannot use P2PKH for recovery flag 'P2WPKH'")
        ELSE IF P2PKHAddress(key, flag \notin Uncompressed, net) # address
        THEN LibFail("generated address does not match expected address")
        ELSE LibOk
    ELSE IF address.type = "P2SH" THEN
        IF flag \in Uncompressed THEN LibFail("cannot use P2SH for recovery flag 'P2PKH uncompressed'")
        ELSE IF flag \in SegwitBech32 THEN LibFail("cannot use P2SH for recovery flag 'P2WPKH'")
        ELSE IF P2SHAddress(key, net) # address
        THEN LibFail("generated address does not match expected address")
        ELSE LibOk
    ELSE
        IF flag \in Uncompressed THEN LibFail("cannot use P2WPKH for recovery flag 'P2PKH uncompressed'")
        ELSE IF flag \in SegwitP2SH THEN LibFail("cannot use P2WPKH for recovery flag 'P2WPKH-P2SH'")
        ELSE IF P2WPKHAddress(key, net) # address
        THEN LibFail("generated address does not match expected address")
        ELSE LibOk

\* A length check that only refuses what is too short
WrongLength_OnlyShort(sigBytes) == Len(sigBytes) < SigLen

\* The dependency's check of the decoded length
WrongLength(sigBytes) == Len(sigBytes) # SigLen

\* verifier.VerifyWithChain of github.com/bitonicnl/verify-signed-message/pkg
VerifyWithChain(address, message, signature, net) ==
    IF ~AddressDecodes(address, net) THEN LibFail("could not decode address")
    ELSE LET dec == DecodeString(signature) IN
    IF ~dec.ok THEN [valid |-> FALSE, err |-> dec.err]
    ELSE IF WrongLength(dec.bytes) THEN LibFail("wrong signature length")
    ELSE LET flag == dec.bytes[1] IN
    IF flag \notin AllFlags THEN LibFail("invalid recovery flag")
    ELSE LET rec == RecoverCompact((flag - 27) % 4,
                                   SubSeq(dec.bytes, 2, 1 + HalfLen),
                                   SubSeq(dec.bytes, 2 + HalfLen, SigLen),
                                   message) IN
    IF ~rec.ok THEN LibFail("could not recover pubkey")
    ELSE ValidateAddress(flag, rec.key, address, net)

\* verifier.Verify: VerifyWithChain on mainnet
Verify(address, message, signature) == VerifyWithChain(address, message, signature, MainNetParams)

\* ------------------------------------------------------------------ log levels
LogLevelNone == 0
LogLevelError == 1
LogLevelInfo == 2
LogLevelDebug == 3
LogLevelTrace == 4
LogLevels == LogLevelNone..LogLevelTrace

\* LogError, LogInfo, LogWarning, LogDebug, LogTrace: of the lines a piece of code
\* tries to log (each named by its threshold), the ones written at this level
Writes(attempts, level) == {threshold \in attempts : level >= threshold}

\* ------------------------------------------------------------------ address entry points
\* The recovery id counted from the first header of the range
Classify_RecIDFromBase(headerByte) ==
    [recID |-> (headerByte - 27) % 4,
     isCompressed |-> headerByte \in 31..42,
     addrType |-> IF headerByte \in 27..30 THEN "P2PKH (uncompressed)"
                  ELSE IF headerByte \in 31..34 THEN "P2PKH (compressed)"
                  ELSE IF headerByte \in 35..38 THEN "P2SH-P2WPKH (SegWit over P2SH)"
                  ELSE IF headerByte \in 39..42 THEN "P2WPKH (native SegWit)"
                  ELSE "Unknown"]

\* The header analysis of VerifyBip137SignatureWithParams
Classify(headerByte) ==
    [recID |-> headerByte % 4,
     isCompressed |-> headerByte \in Compressed \cup SegwitP2SH \cup SegwitBech32,
     addrType |-> IF headerByte \in Uncompressed THEN "P2PKH (uncompressed)"
                  ELSE IF headerByte \in Compressed THEN "P2PKH (compressed)"
                  ELSE IF headerByte \in SegwitP2SH THEN "P2SH-P2WPKH (SegWit over P2SH)"
                  ELSE IF headerByte \in SegwitBech32 THEN "P2WPKH (native SegWit)"
                  ELSE "Unknown"]

\* headerByte & 0x03
And3(headerByte) == (headerByte % 2) + 2 * ((headerByte \div 2) % 2)

\* The header analysis of VerifyBip137SignatureWithPubKeyAndParams
ClassifyPubKey(headerByte) ==
    [recID |-> And3(headerByte),
     isCompressed |-> \/ headerByte >= 31 /\ headerByte <= 34
                      \/ headerByte >= 35 /\ headerByte <= 38
                      \/ headerByte >= 39 /\ headerByte <= 42,
     addrType |-> CASE headerByte >= 27 /\ headerByte <= 30 -> "P2PKH (uncompressed)"
                    [] headerByte >= 31 /\ headerByte <= 34 -> "P2PKH (compressed)"
                    [] headerByte >= 35 /\ headerByte <= 38 -> "P2SH-P2WPKH (SegWit over P2SH)"
                    [] headerByte >= 39 /\ headerByte <= 42 -> "P2WPKH (native SegWit)"
                    [] OTHER -> "Unknown"]

\* What a call hands back: the returned pair, the stages it ran in order, and
\* how many times it entered the address-based fallback.
Outcome(valid, err, steps, fallbacks) ==
    [valid |-> valid, err |-> err, steps |-> steps, fallbacks |-> fallbacks]

\* A refusal that returns true beside its error
Rejected_True(err, steps) == Outcome(TRUE, err, steps, 0)

\* return false, <err>: the call is refused at one of its checks
Rejected(err, steps) == Outcome(FALSE, err, steps, 0)

\* The validation with its checks in the opposite order
ValidateInputs_SignatureFirst(address, message, signatureBase64) ==
    IF signatureBase64 = <<>> THEN ErrEmptySignature
    ELSE IF message = <<>> THEN ErrEmptyMessage
    ELSE IF address = EmptyAddress THEN ErrEmptyAddress
    ELSE Nil

\* The input validation of VerifyBip137SignatureWithParams: the error of the
\* first check that fails, Nil when none does
ValidateInputs(address, message, signatureBase64) ==
    IF address = EmptyAddress THEN ErrEmptyAddress
    ELSE IF message = <<>> THEN ErrEmptyMessage
    ELSE IF signatureBase64 = <<>> THEN ErrEmptySignature
    ELSE Nil

\* The stages a call runs once its signature has decoded
StagesAfterDecode(sigBytes) ==
    <<"validate", "decode">> \o (IF Len(sigBytes) > 0 THEN <<"classify">> ELSE <<>>)

\* The return of VerifyBip137SignatureWithParams for the verifier's (valid, err)
ReturnVerdict(res, steps) ==
    IF res.err # Nil
    THEN Outcome(FALSE, WrapW("signature verification error", res.err), steps, 0)
    ELSE Outcome(res.valid, Nil, steps, 0)

\* The decoding error is dropped and the verifier called all the same
DecodeAndVerify_IgnoresDecodeError(address, message, signatureBase64, params) ==
    ReturnVerdict(VerifyWithChain(address, message, signatureBase64, params),
                  StagesAfterDecode(DecodeString(signatureBase64).bytes) \o <<"verify">>)

\* A header outside 27..42 ends the call at the header analysis
DecodeAndVerify_UnknownIsFatal(address, message, signatureBase64, params) ==
    LET dec == DecodeString(signatureBase64) IN
    IF ~dec.ok
    THEN Rejected(WrapW("invalid base64 signature", dec.err), <<"validate", "decode">>)
    ELSE IF Len(dec.bytes) > 0 /\ Classify(dec.bytes[1]).addrType = "Unknown"
    THEN Rejected(NewError("unknown signature header byte"), StagesAfterDecode(dec.bytes))
    ELSE ReturnVerdict(VerifyWithChain(address, message, signatureBase64, params),
                       StagesAfterDecode(dec.bytes) \o <<"verify">>)

\* VerifyBip137SignatureWithParams from the base64 decoding on
DecodeAndVerify(address, message, signatureBase64, params) ==
    LET dec == DecodeString(signatureBase64) IN
    IF ~dec.ok
    THEN Rejected(WrapW("invalid base64 signature", dec.err), <<"validate", "decode">>)
    ELSE ReturnVerdict(VerifyWithChain(address, message, signatureBase64, params),
                       StagesAfterDecode(dec.bytes) \o <<"verify">>)

VerifyBip137SignatureWithParams(address, message, signatureBase64, params) ==
    IF ValidateInputs(address, message, signatureBase64) # Nil
    THEN Rejected(ValidateInputs(address, message, signatureBase64), <<"validate">>)
    ELSE DecodeAndVerify(address, message, signatureBase64, params)

\* VerifyBip137Signature defaulting to the test network
VerifyBip137Signature_TestNet(address, message, signatureBase64) ==
    VerifyBip137SignatureWithParams(address, message, signatureBase64, "testnet3")

VerifyBip137Signature(address, message, signatureBase64) ==
    VerifyBip137SignatureWithParams(address, message, signatureBase64, MainNetParams)

\* ------------------------------------------------------------------ public-key entry points
\* The input validation of VerifyBip137SignatureWithPubKeyAndParams
ValidatePubKeyInputs(pubKey, message, signatureBase64) ==
    IF pubKey = NilKey THEN ErrEmptyPubKey
    ELSE IF message = <<>> THEN ErrEmptyMessage
    ELSE IF signatureBase64 = <<>> THEN ErrEmptySignature
    ELSE Nil

\* derivedAddress: btcutil.NewAddressPubKeyHash(Hash160(pubKey.SerializeCompressed()), params)
derivedAddress(pubKey, params) == P2PKHAddress(pubKey, TRUE, params)

VerifyBip137SignatureWithPubKeyAndParams(pubKey, message, signatureBase64, params) ==
    IF ValidatePubKeyInputs(pubKey, message, signatureBase64) # Nil
    THEN Rejected(ValidatePubKeyInputs(pubKey, message, signatureBase64), <<"validate">>)
    ELSE LET dec == DecodeString(signatureBase64) IN
    IF ~dec.ok
    THEN Rejected(WrapW("invalid base64 signature", dec.err), <<"validate", "decode">>)
    ELSE LET inner == VerifyBip137SignatureWithParams(
                          derivedAddress(pubKey, params), message, signatureBase64, params)
         IN Outcome(inner.valid, inner.err,
                    StagesAfterDecode(dec.bytes) \o <<"derive">> \o inner.steps, 0)

\* DeriveAddressFromPubKey: the mainnet address of the compressed key
DeriveAddressFromPubKey(pubKey) == P2PKHAddress(pubKey, TRUE, MainNetParams)

\* EnhancedVerifyBip137SignatureWithPubKey: the direct comparison of the
\* recovered key with the supplied one, and the single address-based fallback
\* when the header does not classify.
EnhancedVerifyBip137SignatureWithPubKey(pubKey, message, signatureBase64) ==
    IF message = <<>> THEN Rejected(ErrEmptyMessage, <<"validate">>)
    ELSE IF signatureBase64 = <<>> THEN Rejected(ErrEmptySignature, <<"validate">>)
    ELSE LET dec == DecodeString(signatureBase64) IN
    IF ~dec.ok
    THEN Rejected(WrapW("invalid base64 signature", dec.err), <<"validate", "decode">>)
    ELSE IF Len(dec.bytes) # SigLen
    THEN Rejected(NewError("malformed signature"), <<"validate", "decode">>)
    ELSE IF Classify(dec.bytes[1]).addrType = "Unknown"
    THEN LET fb == VerifyBip137Signature(DeriveAddressFromPubKey(pubKey), message, signatureBase64)
         IN Outcome(fb.valid, fb.err, <<"validate", "decode", "classify", "fallback">> \o fb.steps, 1)
    ELSE LET rec == RecoverCompact((dec.bytes[1] - 27) % 4,
                                   SubSeq(dec.bytes, 2, 1 + HalfLen),
                                   SubSeq(dec.bytes, 2 + HalfLen, SigLen),
                                   message)
             steps == <<"validate", "decode", "classify", "recover">>
         IN IF ~rec.ok THEN Rejected(NewError("recovery failure"), steps)
            ELSE Outcome(rec.key = pubKey, Nil, steps \o <<"compare">>, 0)

\* formatBitcoinMessage: the placeholder returns the bytes of the message
formatBitcoinMessage(message) == message

\* A verdict of false makes the wrapper enter the address verification again
VerifyBip137SignatureWithPubKey_Retries(pubKey, message, signatureBase64) ==
    IF pubKey = NilKey THEN Rejected(ErrEmptyPubKey, <<"validate">>)
    ELSE LET r == EnhancedVerifyBip137SignatureWithPubKey(pubKey, message, signatureBase64)
             fb == VerifyBip137Signature(DeriveAddressFromPubKey(pubKey), message,
                                         signatureBase64)
         IN IF r.valid THEN r
            ELSE Outcome(fb.valid, fb.err, r.steps \o <<"fallback">> \o fb.steps,
                         r.fallbacks + 1)

VerifyBip137SignatureWithPubKey(pubKey, message, signatureBase64) ==
    IF pubKey = NilKey THEN Rejected(ErrEmptyPubKey, <<"validate">>)
    ELSE EnhancedVerifyBip137SignatureWithPubKey(pubKey, message, signatureBase64)

\* ------------------------------------------------------------------ inputs
SigBytes(flag, k, m) == <<flag>> \o RBytes(k) \o SBytes(m)

\* The header BIP-0137 assigns to an address of this kind, before the recovery id
ClassBase(address) ==
    IF address.type = "P2PKH" THEN (IF address.comp THEN 31 ELSE 27)
    ELSE IF address.type = "P2SH" THEN 35
    ELSE 39

\* The BIP-0137 signature of message m by the key controlling the address
GenuineBytes(address, m) ==
    SigBytes(ClassBase(address) + KeyIDOf(address.key, m), address.key, m)

\* bytes with bit i (0 = lowest bit of the first byte) inverted
FlipBit(bytes, i) ==
    LET at == 1 + (i \div 8)
        w == Pow(2, (i % 8) % 4) * (IF i % 8 >= 4 THEN 16 ELSE 1)
    IN [j \in 1..Len(bytes) |->
          IF j # at THEN bytes[j]
          ELSE IF (bytes[j] \div w) % 2 = 1 THEN bytes[j] - w ELSE bytes[j] + w]

KeyAddresses ==
    {P2PKHAddress(k, c, MainNetParams) : k \in Keys, c \in BOOLEAN}
    \cup {P2SHAddress(k, MainNetParams) : k \in Keys}
    \cup {P2WPKHAddress(k, MainNetParams) : k \in Keys}
    \cup {P2PKHAddress(k, TRUE, "testnet3") : k \in Keys}
Addresses == {EmptyAddress, GarbageAddress} \cup KeyAddresses

SignedMessages == Messages \ {<<>>}
TestFlags == {26, 27, 28, 31, 32, 33, 35, 36, 39, 40, 43}

\* "Base64Signature==", the placeholder of the tests: 17 symbols
Base64Signature == <<1, 26, 44, 30, 58, 56, 18, 34, 32, 39, 26, 45, 46, 43, 30, PAD, PAD>>

MalformedSignatures ==
    { <<>>,
      Base64Signature,
      <<NL>>,
      <<BAD, 0, 0, 0>>,
      EncodeToString(<<27, 17>>),
      EncodeToString([i \in 1..SigLen |-> IF i = 1 THEN 27 ELSE 0]),
      EncodeToString(SigBytes(31, 1, <<1>>) \o <<0>>) }

Signatures ==
    MalformedSignatures
    \cup {EncodeToString(SigBytes(f, k, m)) : f \in TestFlags, k \in Keys, m \in SignedMessages}

\* Every signature one bit away from a genuine one, with the genuine triple's
\* address and message
FlippedInputs ==
    {[address |-> a, message |-> m, signature |-> EncodeToString(FlipBit(GenuineBytes(a, m), i)),
      net |-> a.net] :
        a \in {b \in KeyAddresses : b.net = MainNetParams}, m \in SignedMessages,
        i \in 0..(8 * SigLen - 1)}

ParamsInputs ==
    [address : Addresses, message : Messages, signature : Signatures, net : Nets]
    \cup FlippedInputs

\* The context wrappers race the same verification; a smaller set of inputs
CtxAddresses == {EmptyAddress, GarbageAddress}
                \cup {P2PKHAddress(k, TRUE, MainNetParams) : k \in Keys}
CtxSignatures ==
    {<<>>, Base64Signature, EncodeToString(<<27, 17>>)}
    \cup {EncodeToString(SigBytes(f, 1, <<1>>)) : f \in {26, 31, 32}}

\* A context: kind says what can end it, err is ctx.Err()
Background == [kind |-> "background", err |-> "nil"]
Contexts ==
    {Background}
    \cup [kind : {"timeout"}, err : {"nil", "context deadline exceeded", "context canceled"}]
    \cup [kind : {"cancel"}, err : {"nil", "context canceled"}]

ChanCap == 1

\* ------------------------------------------------------------------ state
VARIABLES
    logLevel,   \* currentLogLevel
    pc,         \* the caller: "idle", "select" (blocked in the select), "returned"
    in,         \* the arguments of the call in progress
    ret,        \* the pair the caller returned
    trace,      \* the stages the verification of this call ran, in order
    fallbacks,  \* how often this call entered the address-based fallback
    ctx,        \* the context of a context call
    gpc,        \* the goroutine: "none", "spawned", "verified", "done"
    gres,       \* the pair the goroutine's verification produced
    resultCh,   \* the buffered result channel
    path,       \* the select case taken: "none", "ctx", "result"
    decoded,    \* the locals of each header analysis this call made, in order
    emitted,    \* the thresholds of the log lines this call wrote
    formatted,  \* the last message given to formatBitcoinMessage and what it returned
    fixed,      \* the arguments a caller repeats
    first,      \* what the first of the repeated calls returned
    calls       \* how many of the repeated calls are over

vars == <<logLevel, pc, in, ret, trace, fallbacks, ctx, gpc, gres, resultCh, path,
          decoded, emitted, formatted, fixed, first, calls>>
\* What the verification operations never touch
aux == <<formatted, fixed, first, calls>>

Pair(valid, err) == [valid |-> valid, err |-> err]
NoInput == [op |-> "none", address |-> EmptyAddress, pubKey |-> NilKey, message |-> <<>>,
            signature |-> <<>>, net |-> MainNetParams, ctx |-> Background]
\* The arguments of a call; ctx is the context as it is when the call is made
CtxInput(op, address, pubKey, message, signature, net, c) ==
    [op |-> op, address |-> address, pubKey |-> pubKey, message |-> message,
     signature |-> signature, net |-> net, ctx |-> c]
Input(op, address, pubKey, message, signature, net) ==
    CtxInput(op, address, pubKey, message, signature, net, Background)

\* The locals of one header analysis
Analysis(headerByte, c) ==
    [headerByte |-> headerByte, recID |-> c.recID, isCompressed |-> c.isCompressed,
     addrType |-> c.addrType]

\* The header analyses of a call of op that ran these stages: one for each
\* "classify"; the first one of VerifyBip137SignatureWithPubKeyAndParams is its
\* own, every other one is that of VerifyBip137SignatureWithParams
HeaderAnalyses(op, signatureBase64, steps) ==
    LET n == Len(SelectSeq(steps, LAMBDA s : s = "classify")) IN
    IF n = 0 THEN <<>>
    ELSE LET headerByte == DecodeString(signatureBase64).bytes[1]
         IN [i \in 1..n |->
               IF op = "VerifyBip137SignatureWithPubKeyAndParams" /\ i = 1
               THEN Analysis(headerByte, ClassifyPubKey(headerByte))
               ELSE Analysis(headerByte, Classify(headerByte))]

\* The thresholds of the lines a call of op with this outcome tries to log:
\* LogDebug always, LogInfo at the start of the mainnet operations and after the
\* address derivation, LogTrace in the operations that take parameters,
\* LogWarning (written from Info on) for an unknown header, and LogError or
\* LogInfo for the result
LogAttempts(op, out, headers) ==
    {LogLevelDebug}
    \cup (IF op \in {"VerifyBip137Signature", "VerifyBip137SignatureWithPubKey"}
          THEN {LogLevelInfo} ELSE {})
    \cup (IF op # "VerifyBip137SignatureWithPubKey" THEN {LogLevelTrace} ELSE {})
    \cup (IF \E i \in 1..Len(headers) : headers[i].addrType = "Unknown"
          THEN {LogLevelInfo} ELSE {})
    \cup (IF \E i \in 1..Len(out.steps) : out.steps[i] = "derive"
          THEN {LogLevelInfo} ELSE {})
    \cup (IF out.err # Nil THEN {LogLevelError} ELSE {LogLevelInfo})

InitCall ==
    /\ logLevel = LogLevelInfo
    /\ pc = "idle"
    /\ in = NoInput
    /\ ret = Pair(FALSE, Nil)
    /\ trace = <<>>
    /\ fallbacks = 0
    /\ ctx = Background
    /\ gpc = "none"
    /\ gres = Pair(FALSE, Nil)
    /\ resultCh = <<>>
    /\ path = "none"
    /\ decoded = <<>>
    /\ emitted = {}

NoFormat == [message |-> <<>>, bytes |-> <<>>, done |-> FALSE]

Init ==
    /\ InitCall
    /\ formatted = NoFormat
    /\ fixed = NoInput
    /\ first = Pair(FALSE, Nil)
    /\ calls = 0

SetLogLevel(level) ==
    /\ level # logLevel
    /\ logLevel' = level
    /\ UNCHANGED <<pc, in, ret, trace, fallbacks, ctx, gpc, gres, resultCh, path,
                   decoded, emitted, aux>>

\* The error is returned only where it is logged
Returns_ErrorOnlyWhenLogged(input, out) ==
    /\ pc = "idle"
    /\ in' = input
    /\ ret' = Pair(out.valid, IF logLevel >= LogLevelError THEN out.err ELSE Nil)
    /\ trace' = out.steps
    /\ fallbacks' = out.fallbacks
    /\ pc' = "returned"
    /\ \E headers \in {HeaderAnalyses(input.op, input.signature, out.steps)} :
          /\ decoded' = headers
          /\ emitted' = Writes(LogAttempts(input.op, out, headers), logLevel)
    /\ UNCHANGED <<logLevel, ctx, gpc, gres, resultCh, path, aux>>

\* A synchronous call: arguments in, outcome out
Returns(input, out) ==
    /\ pc = "idle"
    /\ in' = input
    /\ ret' = Pair(out.valid, out.err)
    /\ trace' = out.steps
    /\ fallbacks' = out.fallbacks
    /\ pc' = "returned"
    /\ \E headers \in {HeaderAnalyses(input.op, input.signature, out.steps)} :
          /\ decoded' = headers
          /\ emitted' = Writes(LogAttempts(input.op, out, headers), logLevel)
    /\ UNCHANGED <<logLevel, ctx, gpc, gres, resultCh, path, aux>>

CallVerifyBip137Signature ==
    /\ pc = "idle"
    /\ \E a \in Addresses, m \in Messages, s \in Signatures :
           \E out \in {VerifyBip137Signature(a, m, s)} :
               Returns(Input("VerifyBip137Signature", a, NilKey, m, s, MainNetParams), out)

CallVerifyBip137SignatureWithParams ==
    /\ pc = "idle"
    /\ \E i \in ParamsInputs :
           \E out \in {VerifyBip137SignatureWithParams(i.address, i.message, i.signature, i.net)} :
               Returns(Input("VerifyBip137SignatureWithParams", i.address, NilKey, i.message,
                             i.signature, i.net), out)

CallVerifyBip137SignatureWithPubKey ==
    /\ pc = "idle"
    /\ \E k \in Keys \cup {NilKey}, m \in Messages, s \in Signatures :
           \E out \in {VerifyBip137SignatureWithPubKey(k, m, s)} :
               Returns(Input("VerifyBip137SignatureWithPubKey", EmptyAddress, k, m, s,
                             MainNetParams), out)

CallVerifyBip137SignatureWithPubKeyAndParams ==
    /\ pc = "idle"
    /\ \E k \in Keys \cup {NilKey}, m \in Messages, s \in Signatures, n \in Nets :
           \E out \in {VerifyBip137SignatureWithPubKeyAndParams(k, m, s, n)} :
               Returns(Input("VerifyBip137SignatureWithPubKeyAndParams", EmptyAddress, k, m, s, n),
                       out)

\* A context call up to its select: the channel is made and the goroutine started
Spawns(input) ==
    /\ pc = "idle"
    /\ in' = input
    /\ ctx' = input.ctx
    /\ resultCh' = <<>>
    /\ gpc' = "spawned"
    /\ pc' = "select"
    /\ emitted' = Writes({LogLevelInfo, LogLevelDebug}, logLevel)
    /\ UNCHANGED <<logLevel, ret, trace, fallbacks, gres, path, decoded, aux>>

CallVerifyBip137SignatureWithContext ==
    /\ pc = "idle"
    /\ \E c \in Contexts, a \in CtxAddresses, m \in Messages, s \in CtxSignatures :
           Spawns(CtxInput("VerifyBip137SignatureWithContext", a, NilKey, m, s, MainNetParams, c))

CallVerifyBip137SignatureWithPubKeyAndContext ==
    /\ pc = "idle"
    /\ \E c \in Contexts, k \in Keys \cup {NilKey}, m \in Messages, s \in CtxSignatures :
           Spawns(CtxInput("VerifyBip137SignatureWithPubKeyAndContext", EmptyAddress, k, m, s,
                           MainNetParams, c))

\* The goroutine's verification
GoroutineOutcome(input) ==
    IF input.op = "VerifyBip137SignatureWithContext"
    THEN LET r == Verify(input.address, input.message, input.signature)
         IN Outcome(r.valid, r.err, <<"verify">>, 0)
    ELSE VerifyBip137SignatureWithPubKey(input.pubKey, input.message, input.signature)

GoVerify ==
    /\ gpc = "spawned"
    /\ \E out \in {GoroutineOutcome(in)} :
          /\ gres' = Pair(out.valid, out.err)
          /\ trace' = out.steps
          /\ fallbacks' = out.fallbacks
          /\ \E headers \in {HeaderAnalyses("VerifyBip137SignatureWithPubKey", in.signature,
                                             out.steps)} :
                /\ decoded' = headers
                /\ emitted' = emitted \cup
                      Writes({LogLevelDebug} \cup
                             (IF in.op = "VerifyBip137SignatureWithPubKeyAndContext"
                              THEN LogAttempts("VerifyBip137SignatureWithPubKey", out, headers)
                              ELSE {}),
                             logLevel)
    /\ gpc' = "verified"
    /\ UNCHANGED <<logLevel, pc, in, ret, ctx, resultCh, path, aux>>

\* The received pair is returned as it is
Completion_Untouched(result) == Pair(result.valid, result.err)

\* What the caller returns for a received result
Completion(result) ==
    IF result.err # Nil
    THEN Pair(FALSE, WrapW("signature verification error", result.err))
    ELSE Pair(result.valid, Nil)

\* The goroutine also stores its result in the variable the caller returns
GoSend_SharedResult ==
    /\ gpc = "verified"
    /\ Len(resultCh) < ChanCap
    /\ resultCh' = Append(resultCh, gres)
    /\ gpc' = "done"
    /\ ret' = Completion(gres)
    /\ UNCHANGED <<logLevel, pc, in, trace, fallbacks, ctx, gres, path, decoded, emitted, aux>>

\* A channel without a buffer: the send completes only while the caller waits in its select
GoSend_Unbuffered ==
    /\ gpc = "verified"
    /\ pc = "select"
    /\ Len(resultCh) < ChanCap
    /\ resultCh' = Append(resultCh, gres)
    /\ gpc' = "done"
    /\ UNCHANGED <<logLevel, pc, in, ret, trace, fallbacks, ctx, gres, path, decoded, emitted,
                   aux>>

\* resultCh <- {valid, err}: blocks while the buffer is full
GoSend ==
    /\ gpc = "verified"
    /\ Len(resultCh) < ChanCap
    /\ resultCh' = Append(resultCh, gres)
    /\ gpc' = "done"
    /\ UNCHANGED <<logLevel, pc, in, ret, trace, fallbacks, ctx, gres, path, decoded, emitted,
                   aux>>

\* The sentinel is formatted into the message and not wrapped
TimeoutError_NotWrapped(ctxErr) ==
    [msg |-> ErrVerificationTimeout.msg \o <<ctxErr>>, wraps |-> {}]

\* fmt.Errorf("%w: %v", ErrVerificationTimeout, ctxErr)
TimeoutError(ctxErr) ==
    [msg |-> ErrVerificationTimeout.msg \o <<ctxErr>>, wraps |-> ErrVerificationTimeout.wraps]

\* The select takes the context case for an expired deadline only
SelectDone_DeadlineOnly ==
    /\ pc = "select"
    /\ ctx.err = "context deadline exceeded"
    /\ ret' = Pair(FALSE, TimeoutError(ctx.err))
    /\ path' = "ctx"
    /\ pc' = "returned"
    /\ emitted' = emitted \cup Writes({LogLevelError}, logLevel)
    /\ UNCHANGED <<logLevel, in, trace, fallbacks, ctx, gpc, gres, resultCh, decoded, aux>>

\* case <-ctx.Done()
SelectDone ==
    /\ pc = "select"
    /\ ctx.err # "nil"
    /\ ret' = Pair(FALSE, TimeoutError(ctx.err))
    /\ path' = "ctx"
    /\ pc' = "returned"
    /\ emitted' = emitted \cup Writes({LogLevelError}, logLevel)
    /\ UNCHANGED <<logLevel, in, trace, fallbacks, ctx, gpc, gres, resultCh, decoded, aux>>

\* case result := <-resultCh
SelectResult ==
    /\ pc = "select"
    /\ resultCh # <<>>
    /\ ret' = Completion(Head(resultCh))
    /\ resultCh' = Tail(resultCh)
    /\ path' = "result"
    /\ pc' = "returned"
    /\ emitted' = emitted \cup
          Writes(IF Head(resultCh).err # Nil THEN {LogLevelError} ELSE {LogLevelInfo}, logLevel)
    /\ UNCHANGED <<logLevel, in, trace, fallbacks, ctx, gpc, gres, decoded, aux>>

\* The deadline of a context with a timeout passes
DeadlineExpires ==
    /\ pc = "select"
    /\ ctx.kind = "timeout"
    /\ ctx.err = "nil"
    /\ ctx' = [ctx EXCEPT !.err = "context deadline exceeded"]
    /\ UNCHANGED <<logLevel, pc, in, ret, trace, fallbacks, gpc, gres, resultCh, path,
                   decoded, emitted, aux>>

\* The owner of the context calls its cancel function
Cancel ==
    /\ pc = "select"
    /\ ctx.kind \in {"timeout", "cancel"}
    /\ ctx.err = "nil"
    /\ ctx' = [ctx EXCEPT !.err = "context canceled"]
    /\ UNCHANGED <<logLevel, pc, in, ret, trace, fallbacks, gpc, gres, resultCh, path,
                   decoded, emitted, aux>>

\* The call is over (the caller has its pair and no goroutine is left running):
\* nothing of it is left
EndCall ==
    /\ pc = "returned"
    /\ gpc \in {"none", "done"}
    /\ pc' = "idle"
    /\ in' = NoInput
    /\ ret' = Pair(FALSE, Nil)
    /\ trace' = <<>>
    /\ fallbacks' = 0
    /\ ctx' = Background
    /\ gpc' = "none"
    /\ gres' = Pair(FALSE, Nil)
    /\ resultCh' = <<>>
    /\ path' = "none"
    /\ decoded' = <<>>
    /\ emitted' = {}
    /\ UNCHANGED logLevel

\* The next call starts from scratch
Reset == EndCall /\ UNCHANGED aux

Next ==
    \/ \E level \in LogLevels : SetLogLevel(level)
    \/ CallVerifyBip137Signature
    \/ CallVerifyBip137SignatureWithParams
    \/ CallVerifyBip137SignatureWithPubKey
    \/ CallVerifyBip137SignatureWithPubKeyAndParams
    \/ CallVerifyBip137SignatureWithContext
    \/ CallVerifyBip137SignatureWithPubKeyAndContext
    \/ GoVerify
    \/ GoSend
    \/ SelectDone
    \/ SelectResult
    \/ DeadlineExpires
    \/ Cancel
    \/ Reset

Spec == Init /\ [][Next]_vars

\* ------------------------------------------------------------------ every header byte
\* headerByte := sigBytes[0]: every value of a byte
HeaderBytes == 0..255
\* A 65-byte signature with this header over the (R, S) of the first key
HeaderSignature(headerByte) == EncodeToString(SigBytes(headerByte, 1, <<1>>))

CallHeaderWithParams ==
    /\ pc = "idle"
    /\ \E headerByte \in HeaderBytes :
          \E i \in {Input("VerifyBip137SignatureWithParams", P2PKHAddress(1, TRUE, MainNetParams),
                          NilKey, <<1>>, HeaderSignature(headerByte), MainNetParams)} :
              \E out \in {VerifyBip137SignatureWithParams(i.address, i.message, i.signature,
                                                           i.net)} :
                  Returns(i, out)

CallHeaderWithPubKeyAndParams ==
    /\ pc = "idle"
    /\ \E headerByte \in HeaderBytes :
          \E i \in {Input("VerifyBip137SignatureWithPubKeyAndParams", EmptyAddress, 1, <<1>>,
                          HeaderSignature(headerByte), MainNetParams)} :
              \E out \in {VerifyBip137SignatureWithPubKeyAndParams(i.pubKey, i.message,
                                                                    i.signature, i.net)} :
                  Returns(i, out)

NextHeader ==
    \/ CallHeaderWithParams
    \/ CallHeaderWithPubKeyAndParams
    \/ Reset

SpecHeader == Init /\ [][NextHeader]_vars

\* ------------------------------------------------------------------ message formatting
MaxFormatLen == 2
\* 'H', 'i', a line feed and a byte of a multi-byte UTF-8 character
FormatChars == {72, 105, 10, 195}
\* Messages up to MaxFormatLen bytes, and messages around the length 0xFD
FormatMessages ==
    UNION {[1..n -> FormatChars] : n \in 0..MaxFormatLen}
    \cup {[i \in 1..n |-> 72] : n \in {252, 253, 254}}

\* A call of formatBitcoinMessage
FormatBitcoinMessage ==
    /\ pc = "idle"
    /\ \E message \in FormatMessages :
          formatted' = [message |-> message, bytes |-> formatBitcoinMessage(message),
                        done |-> TRUE]
    /\ emitted' = Writes({LogLevelTrace}, logLevel)
    /\ UNCHANGED <<logLevel, pc, in, ret, trace, fallbacks, ctx, gpc, gres, resultCh, path,
                   decoded, fixed, first, calls>>

NextFormat ==
    \/ \E level \in LogLevels : SetLogLevel(level)
    \/ FormatBitcoinMessage

SpecFormat == Init /\ [][NextFormat]_vars

\* ------------------------------------------------------------------ repeated calls
MaxCalls == 3

\* What a synchronous operation hands back for these arguments
SyncOutcome(input) ==
    CASE input.op = "VerifyBip137Signature" ->
            VerifyBip137Signature(input.address, input.message, input.signature)
      [] input.op = "VerifyBip137SignatureWithParams" ->
            VerifyBip137SignatureWithParams(input.address, input.message, input.signature,
                                            input.net)
      [] input.op = "VerifyBip137SignatureWithPubKey" ->
            VerifyBip137SignatureWithPubKey(input.pubKey, input.message, input.signature)
      [] input.op = "VerifyBip137SignatureWithPubKeyAndParams" ->
            VerifyBip137SignatureWithPubKeyAndParams(input.pubKey, input.message,
                                                     input.signature, input.net)

\* Contexts whose state no call changes: never done, or done before the call
FixedContexts == {c \in Contexts : c.kind = "background" \/ c.err # "nil"}
SyncOps == {"VerifyBip137Signature", "VerifyBip137SignatureWithParams",
            "VerifyBip137SignatureWithPubKey", "VerifyBip137SignatureWithPubKeyAndParams"}
CtxOps == {"VerifyBip137SignatureWithContext", "VerifyBip137SignatureWithPubKeyAndContext"}

\* The arguments that are repeated: a genuine signature, one of another key,
\* the placeholder and the empty string, for every operation
RepeatSignatures ==
    {EncodeToString(SigBytes(32, 1, <<1>>)), EncodeToString(SigBytes(32, 2, <<1>>)),
     EncodeToString(SigBytes(43, 1, <<1>>)), Base64Signature, <<>>}
RepeatInputs ==
    {CtxInput(op, P2PKHAddress(1, TRUE, MainNetParams), 1, <<1>>, s, MainNetParams, Background) :
        op \in SyncOps, s \in RepeatSignatures}
    \cup {CtxInput(op, P2PKHAddress(1, TRUE, MainNetParams), 1, <<1>>, s, MainNetParams, c) :
             op \in CtxOps, s \in RepeatSignatures, c \in FixedContexts}

InitRepeat ==
    /\ InitCall
    /\ formatted = NoFormat
    /\ fixed \in RepeatInputs
    /\ first = Pair(FALSE, Nil)
    /\ calls = 0

\* One more call with the same arguments
RepeatCall ==
    /\ pc = "idle"
    /\ calls < MaxCalls
    /\ IF fixed.op \in CtxOps
       THEN Spawns(fixed)
       ELSE \E out \in {SyncOutcome(fixed)} : Returns(fixed, out)

\* The call is over: the caller keeps what the first one returned
RepeatEnd ==
    /\ EndCall
    /\ calls' = calls + 1
    /\ first' = IF calls = 0 THEN ret ELSE first
    /\ UNCHANGED <<formatted, fixed>>

NextRepeat ==
    \/ \E level \in LogLevels : SetLogLevel(level)
    \/ RepeatCall
    \/ GoVerify
    \/ GoSend
    \/ SelectDone
    \/ SelectResult
    \/ RepeatEnd

SpecRepeat == InitRepeat /\ [][NextRepeat]_vars

\* ------------------------------------------------------------------ scheduling
\* The context operations under the scheduling of the Go runtime: a goroutine that
\* can run is run in the end, so a send into a buffer with room completes and a
\* select with a ready case takes one. Nothing is assumed about the verifier
\* returning or about the context becoming done.
NextLive ==
    \/ CallVerifyBip137SignatureWithContext
    \/ CallVerifyBip137SignatureWithPubKeyAndContext
    \/ GoVerify
    \/ GoSend
    \/ SelectDone
    \/ SelectResult
    \/ DeadlineExpires
    \/ Cancel
    \/ Reset

Fairness ==
    /\ WF_vars(GoSend)
    /\ WF_vars(SelectDone)
    /\ WF_vars(SelectResult)

SpecLive == Init /\ [][NextLive]_vars /\ Fairness

\* ------------------------------------------------------------------ claims
Returned(op) == pc = "returned" /\ in.op = op

\* The call in progress is an address verification of a genuine BIP-0137
\* signature: the header of the address's class plus the recovery id, and the
\* (R, S) of the address's key over the message, checked on the address's network
IsGenuineCall ==
    /\ pc = "returned"
    /\ in.op \in {"VerifyBip137Signature", "VerifyBip137SignatureWithParams"}
    /\ in.address.type \in AddrTypes
    /\ in.address.key \in Keys
    /\ in.message # <<>>
    /\ in.net = in.address.net
    /\ in.signature = EncodeToString(GenuineBytes(in.address, in.message))

\* C1: a genuine BIP-0137 signature of the message by the key controlling the
\* address verifies as (true, nil), both through VerifyBip137Signature and
\* through VerifyBip137SignatureWithParams with the address's network.
C1_GenuineVerifies == IsGenuineCall => ret = Pair(TRUE, Nil)

\* A mainnet compressed P2PKH address with header 32, as in the test vector
C1_Witness ==
    /\ IsGenuineCall
    /\ in.op = "VerifyBip137Signature"
    /\ in.address = P2PKHAddress(in.address.key, TRUE, MainNetParams)
    /\ DecodeString(in.signature).bytes[1] = 32
    /\ ret = Pair(TRUE, Nil)

\* b2 is b1 with exactly one bit inverted
OneBitApart(b1, b2) ==
    /\ Len(b1) = Len(b2)
    /\ Cardinality({j \in 1..Len(b1) : b1[j] # b2[j]}) = 1
    /\ \A j \in 1..Len(b1) :
          b1[j] # b2[j] => \E e \in 0..7 : FlipBit(<<b1[j]>>, e) = <<b2[j]>>

\* The decoded signatures that verify as true for the call's address, message
\* and network: only the (R, S) of a key over this message can
VerifyingOriginals ==
    {o \in {SigBytes(f, k, in.message) : f \in AllFlags, k \in Keys} :
        VerifyBip137SignatureWithParams(in.address, in.message, EncodeToString(o), in.net).valid}

\* The original signatures the call's signature is a single-bit change of
MutatedFrom ==
    {o \in VerifyingOriginals : OneBitApart(o, DecodeString(in.signature).bytes)}

C3_EmptyInputOrder ==
    /\ Returned("VerifyBip137SignatureWithParams") =>
          /\ in.address = EmptyAddress => ret = Pair(FALSE, ErrEmptyAddress)
          /\ (in.address # EmptyAddress /\ in.message = <<>>)
                => ret = Pair(FALSE, ErrEmptyMessage)
          /\ (in.address # EmptyAddress /\ in.message # <<>> /\ in.signature = <<>>)
                => ret = Pair(FALSE, ErrEmptySignature)
    /\ Returned("VerifyBip137SignatureWithPubKeyAndParams") =>
          /\ in.pubKey = NilKey => ret = Pair(FALSE, ErrEmptyPubKey)
          /\ (in.pubKey # NilKey /\ in.message = <<>>) => ret = Pair(FALSE, ErrEmptyMessage)
          /\ (in.pubKey # NilKey /\ in.message # <<>> /\ in.signature = <<>>)
                => ret = Pair(FALSE, ErrEmptySignature)

\* All three inputs empty: the address check decides
C3_Witness ==
    /\ Returned("VerifyBip137SignatureWithParams")
    /\ in.address = EmptyAddress
    /\ in.message = <<>>
    /\ in.signature = <<>>
    /\ ret = Pair(FALSE, ErrEmptyAddress)

\* C4: no public verification operation returns true together with an error.
C4_NeverTrueWithError == pc = "returned" => (ret.err # Nil => ret.valid = FALSE)

\* An error returned on the completion path of a context call
C4_Witness ==
    /\ Returned("VerifyBip137SignatureWithPubKeyAndContext")
    /\ path = "result"
    /\ ret.err # Nil
    /\ ret.valid = FALSE

\* The call handed the verifier a well-formed signature from which a key was
\* recovered, and the key is not the one of the claimed address
IsMismatchCall ==
    /\ Returned("VerifyBip137SignatureWithParams")
    /\ ValidateInputs(in.address, in.message, in.signature) = Nil
    /\ AddressDecodes(in.address, in.net)
    /\ LET dec == DecodeString(in.signature)
       IN /\ dec.ok
          /\ Len(dec.bytes) = SigLen
          /\ dec.bytes[1] \in AllFlags
          /\ LET rec == RecoverCompact((dec.bytes[1] - 27) % 4,
                                       SubSeq(dec.bytes, 2, 1 + HalfLen),
                                       SubSeq(dec.bytes, 2 + HalfLen, SigLen),
                                       in.message)
             IN rec.ok /\ rec.key # in.address.key

\* C5 as claimed: when a key is recovered and its address is not the claimed
\* one, VerifyBip137SignatureWithParams returns (false, nil), never an error.
C5_MismatchIsVerdict == IsMismatchCall => ret = Pair(FALSE, Nil)

StageOrder == <<"validate", "decode", "classify", "verify">>
StageIndex(s) == CHOOSE i \in 1..Len(StageOrder) : StageOrder[i] = s

\* C6: in VerifyBip137SignatureWithParams an empty input or a signature that is
\* not standard padded base64 gives (false, error) without the verifier being
\* invoked, and the stages that run do so in the order validate, decode,
\* classify, verify.
C6_StructuralErrorsShortCircuit ==
    Returned("VerifyBip137SignatureWithParams") =>
        /\ (\/ ValidateInputs(in.address, in.message, in.signature) # Nil
            \/ ~DecodeString(in.signature).ok)
              => /\ ret.valid = FALSE
                 /\ ret.err # Nil
                 /\ \A i \in 1..Len(trace) : trace[i] # "verify"
        /\ Len(trace) >= 1
        /\ trace[1] = "validate"
        /\ \A i \in 1..Len(trace) : \E k \in 1..Len(StageOrder) : StageOrder[k] = trace[i]
        /\ \A i, j \in 1..Len(trace) : i < j => StageIndex(trace[i]) < StageIndex(trace[j])

\* The placeholder of the tests, which is not base64: refused after decoding
C6_Witness ==
    /\ Returned("VerifyBip137SignatureWithParams")
    /\ in.address # EmptyAddress
    /\ in.message # <<>>
    /\ in.signature = Base64Signature
    /\ trace = <<"validate", "decode">>
    /\ ret = Pair(FALSE, WrapW("invalid base64 signature", NewError("illegal base64 data")))

\* The call's signature is valid base64 that does not decode to 65 bytes, and
\* the address and the message are not empty
IsWrongLengthCall ==
    /\ Returned("VerifyBip137SignatureWithParams")
    /\ in.address # EmptyAddress
    /\ in.message # <<>>
    /\ in.signature # <<>>
    /\ DecodeString(in.signature).ok
    /\ Len(DecodeString(in.signature).bytes) # SigLen

IsTimeoutError(err) == err # Nil /\ err.msg[1] = "signature verification timed out"

\* C8 as claimed: a context call made with a context whose deadline has already
\* passed returns (false, timeout error) in every interleaving.
C8_ExpiredDeadlineWins ==
    (pc = "returned" /\ in.op \in CtxOps /\ in.ctx.err = "context deadline exceeded")
        => (ret.valid = FALSE /\ IsTimeoutError(ret.err))

\* The pair the caller is to return for the verification's pair
ExpectedCompletion(result) ==
    IF result.err = Nil THEN result
    ELSE Pair(FALSE, [msg |-> <<"signature verification error">> \o result.err.msg,
                      wraps |-> result.err.wraps])

\* C9: a context call returns by exactly one of the two select cases; once it
\* has returned, its pair never changes, and a result the goroutine delivers
\* when the context case was taken stays in the channel, unobserved.
C9_SingleResult ==
    /\ []((pc = "returned" /\ in.op \in CtxOps) =>
            /\ path \in {"ctx", "result"}
            /\ path = "ctx" =>
                  /\ ret.valid = FALSE
                  /\ IsTimeoutError(ret.err)
                  /\ resultCh = (IF gpc = "done" THEN <<gres>> ELSE <<>>)
            /\ path = "result" =>
                  /\ ret = ExpectedCompletion(gres)
                  /\ gpc = "done"
                  /\ resultCh = <<>>)
    /\ [][pc = "returned" =>
            \/ pc' = "returned" /\ ret' = ret /\ path' = path
            \/ pc' = "idle"]_vars

\* The context case was taken and the goroutine's result sits in the channel
C9_Witness ==
    /\ pc = "returned"
    /\ in.op \in CtxOps
    /\ path = "ctx"
    /\ gpc = "done"
    /\ resultCh = <<gres>>
    /\ IsTimeoutError(ret.err)

\* C10 as claimed: on the completion path the caller returns exactly the pair
\* the verification produced.
C10_CompletionUntouched ==
    (pc = "returned" /\ in.op \in CtxOps /\ path = "result") => ret = gres

\* C10 as amended: on the completion path the caller returns the verification's
\* pair unchanged when its error is nil, and otherwise (false, error) where the
\* error wraps the verification's error as "signature verification error".
C10_CompletionWrapsError ==
    (pc = "returned" /\ in.op \in CtxOps /\ path = "result")
        => ret = ExpectedCompletion(gres)

\* A verification error taken on the completion path
C10_Witness ==
    /\ pc = "returned"
    /\ in.op \in CtxOps
    /\ path = "result"
    /\ gres.err # Nil
    /\ ret.err # gres.err
    /\ ret.err.wraps = gres.err.wraps

\* errors.Is(err, target) for a sentinel target
ErrorsIs(err, target) == target.wraps # {} /\ target.wraps \subseteq err.wraps

\* A context call returned by the case <-ctx.Done()
ReturnedByContext == pc = "returned" /\ in.op \in CtxOps /\ path = "ctx"

\* C11 as claimed: on the signal path an explicit cancel of the context gives an
\* error of another kind than a deadline expiry does, so a cancel never gives
\* the timeout error.
C11_CancelIsNotTimeout ==
    (ReturnedByContext /\ ctx.err = "context canceled")
        => ~ErrorsIs(ret.err, ErrVerificationTimeout)

\* C12: an error returned by a context wrapper matches ErrVerificationTimeout if
\* and only if the context case produced the result; that case always returns
\* an error, and an error of the completion path never matches.
C12_TimeoutSeparable ==
    (pc = "returned" /\ in.op \in CtxOps) =>
        /\ path = "ctx" => ret.err # Nil
        /\ ret.err # Nil => (ErrorsIs(ret.err, ErrVerificationTimeout) <=> path = "ctx")

\* The context is done, the completion case was taken all the same, and its
\* error is no timeout
C12_Witness ==
    /\ pc = "returned"
    /\ in.op = "VerifyBip137SignatureWithContext"
    /\ ctx.err # "nil"
    /\ path = "result"
    /\ ret.err # Nil
    /\ ret.err.msg[1] = "signature verification error"
    /\ ~ErrorsIs(ret.err, ErrVerificationTimeout)

\* C14 as claimed: whenever the underlying verifier was invoked in a call, the
\* call's message and signature are not empty, nor is the address of an
\* address verification.
C14_NonEmptyAtVerifier ==
    (\E i \in 1..Len(trace) : trace[i] = "verify") =>
        /\ in.message # <<>>
        /\ in.signature # <<>>
        /\ in.op \in {"VerifyBip137Signature", "VerifyBip137SignatureWithParams",
                      "VerifyBip137SignatureWithContext"}
              => in.address # EmptyAddress

\* The call's signature decodes to bytes whose first is outside 27..42
IsUnknownHeaderCall ==
    /\ Returned("VerifyBip137SignatureWithParams")
    /\ ValidateInputs(in.address, in.message, in.signature) = Nil
    /\ \E dec \in {DecodeString(in.signature)} :
          dec.ok /\ Len(dec.bytes) > 0 /\ dec.bytes[1] \notin AllFlags

\* C16: for a decodable signature whose first byte is outside 27..42,
\* VerifyBip137SignatureWithParams analyses the header as Unknown, goes on to
\* invoke the verifier, and returns what the handling of the verifier's result
\* gives.
C16_UnknownHeaderNotFatal ==
    IsUnknownHeaderCall =>
        /\ trace = <<"validate", "decode", "classify", "verify">>
        /\ Len(decoded) = 1
        /\ decoded[1].addrType = "Unknown"
        /\ LET res == VerifyWithChain(in.address, in.message, in.signature, in.net)
           IN ret = IF res.err # Nil
                    THEN Pair(FALSE, [msg |-> <<"signature verification error">> \o res.err.msg,
                                      wraps |-> res.err.wraps])
                    ELSE Pair(res.valid, Nil)

\* Header 43 with the (R, S) of the address's key: the verifier refuses the flag
C16_Witness ==
    /\ IsUnknownHeaderCall
    /\ DecodeString(in.signature).bytes[1] = 43
    /\ AddressDecodes(in.address, in.net)
    /\ trace[Len(trace)] = "verify"
    /\ ret = Pair(FALSE, WrapW("signature verification error", NewError("invalid recovery flag")))

\* The number of times the call entered the address-based fallback, counted
\* from the stages it ran
FallbackStages == Len(SelectSeq(trace, LAMBDA s : s = "fallback"))

ClassOfRange(headerByte) ==
    IF headerByte >= 27 /\ headerByte <= 30 THEN <<"P2PKH (uncompressed)", FALSE>>
    ELSE IF headerByte >= 31 /\ headerByte <= 34 THEN <<"P2PKH (compressed)", TRUE>>
    ELSE IF headerByte >= 35 /\ headerByte <= 38 THEN <<"P2SH-P2WPKH (SegWit over P2SH)", TRUE>>
    ELSE IF headerByte >= 39 /\ headerByte <= 42 THEN <<"P2WPKH (native SegWit)", TRUE>>
    ELSE <<"Unknown", FALSE>>

\* C15: every header analysis of a call finds the class and the compression
\* flag of the signature's first byte by its range and the recovery id as the
\* byte's two lowest bits, a value in 0..3 whatever the class; the analyses of
\* the public-key entry point and of the address entry point give the same.
C15_HeaderDecoding ==
    (pc = "returned" /\ in.op \in {"VerifyBip137SignatureWithParams",
                                   "VerifyBip137SignatureWithPubKeyAndParams"}) =>
        \E sigBytes \in {DecodeString(in.signature).bytes} :
            /\ Len(decoded) =
                  (IF Len(sigBytes) = 0 \/ in.message = <<>> THEN 0
                   ELSE IF in.op = "VerifyBip137SignatureWithParams"
                   THEN (IF in.address = EmptyAddress THEN 0 ELSE 1)
                   ELSE (IF in.pubKey = NilKey THEN 0 ELSE 2))
            /\ \A i \in 1..Len(decoded) :
                  /\ decoded[i].headerByte = sigBytes[1]
                  /\ <<decoded[i].addrType, decoded[i].isCompressed>> = ClassOfRange(sigBytes[1])
                  /\ decoded[i].recID \in 0..3
                  /\ decoded[i].recID = sigBytes[1] - 4 * (sigBytes[1] \div 4)
            /\ \A i, j \in 1..Len(decoded) : decoded[i] = decoded[j]

\* Header 27 through the public-key entry point: uncompressed P2PKH, and the
\* two lowest bits of 27 are 3
C15_Witness ==
    /\ Returned("VerifyBip137SignatureWithPubKeyAndParams")
    /\ Len(decoded) = 2
    /\ decoded[1] = [headerByte |-> 27, recID |-> 3, isCompressed |-> FALSE,
                     addrType |-> "P2PKH (uncompressed)"]
    /\ decoded[2] = decoded[1]

MessagePrefix ==
    <<66, 105, 116, 99, 111, 105, 110, 32, 83, 105, 103, 110, 101, 100, 32,
      77, 101, 115, 115, 97, 103, 101, 58, 10>>

\* n without its k lowest bytes
RECURSIVE DropBytes(_, _)
DropBytes(n, k) == IF k = 0 THEN n ELSE DropBytes(n \div 256, k - 1)

\* n in size little-endian bytes
LittleEndian(n, size) == [i \in 1..size |-> DropBytes(n, i - 1) % 256]

\* The compact-size encoding of a length: one byte below 0xFD, then the markers
\* 0xFD, 0xFE and 0xFF before 2, 4 and 8 bytes
CompactSize(n) ==
    IF n < 253 THEN <<n>>
    ELSE IF DropBytes(n, 2) = 0 THEN <<253>> \o LittleEndian(n, 2)
    ELSE IF DropBytes(n, 4) = 0 THEN <<254>> \o LittleEndian(n, 4)
    ELSE <<255>> \o LittleEndian(n, 8)

\* C18 as claimed: formatBitcoinMessage returns the compact size of the prefix,
\* the prefix, the compact size of the message and the message, and never the
\* bytes of the message unchanged.
C18_FormatIsCanonical ==
    formatted.done =>
        /\ formatted.bytes = CompactSize(Len(MessagePrefix)) \o MessagePrefix
                             \o CompactSize(Len(formatted.message)) \o formatted.message
        /\ formatted.bytes # formatted.message

\* C19 as claimed: every repetition of a call with the same arguments, and for
\* a context call the same context state, returns what the first call returned.
C19_RepeatedCallsAgree == (pc = "returned" /\ calls >= 1) => ret = first

\* C20 as claimed: the package-level log level is never written while a
\* verification call is in progress or its goroutine is running, both of which
\* read it.
C20_LevelWrittenOnlyBetweenCalls ==
    [][logLevel' # logLevel => (pc # "select" /\ gpc # "spawned")]_vars

\* C21: in every interleaving of the two context operations, also after the caller has
\* returned on the context-done path, the goroutine that holds its result can send it at
\* once: the buffer of the result channel has room (capacity 1, one send per call), so the
\* send is enabled and the goroutine ends.
C21_SendNeverBlocks ==
    /\ Len(resultCh) <= ChanCap
    /\ (gpc = "verified" => resultCh = <<>> /\ ENABLED GoSend)
    /\ (gpc = "done" /\ path = "ctx" => resultCh = <<gres>>)

\* The caller left on the context-done path and the goroutine sent its result afterwards
C21_Witness ==
    /\ pc = "returned"
    /\ path = "ctx"
    /\ gpc = "done"
    /\ resultCh = <<gres>>

\* The caller waits in its select
Blocked == pc = "select" /\ in.op \in CtxOps

\* The context is done, or the verification of the goroutine has returned
Released == ctx.err # "nil" \/ gpc \in {"verified", "done"}

\* C22: under fair scheduling a context call returns once its context is done or the
\* verification of its goroutine has returned; the caller waits nowhere but in its
\* select; and a caller whose context is not done has returned only with the result of
\* a verification that returned.
C22_CallerLiveness ==
    /\ (Blocked /\ Released) ~> (pc = "returned")
    /\ [](in.op \in CtxOps => pc \in {"select", "returned"})
    /\ []((pc = "returned" /\ in.op \in CtxOps /\ ctx.err = "nil")
             => (path = "result" /\ gpc = "done" /\ ret = Completion(gres)))

\* A caller with a context that cannot become done has returned with the result
C22_Witness ==
    /\ pc = "returned"
    /\ in.op \in CtxOps
    /\ ctx = Background
    /\ path = "result"
    /\ gpc = "done"
    /\ resultCh = <<>>

\* The first header of each BIP-0137 range: the recovery id is added to it
ClassBases == {27, 31, 35, 39}

\* The address of a key in the encoding a header of this range announces
AddressOfClass(key, base, net) ==
    IF base = 27 THEN P2PKHAddress(key, FALSE, net)
    ELSE IF base = 31 THEN P2PKHAddress(key, TRUE, net)
    ELSE IF base = 35 THEN P2SHAddress(key, net)
    ELSE P2WPKHAddress(key, net)

\* The call in progress verified, against a key and a network, a BIP-0137 signature
\* of that key over the message with a header of the range that starts at base
IsGenuinePubKeyCall(base) ==
    /\ Returned("VerifyBip137SignatureWithPubKeyAndParams")
    /\ in.pubKey \in Keys
    /\ in.message # <<>>
    /\ in.signature =
          EncodeToString(SigBytes(base + KeyIDOf(in.pubKey, in.message), in.pubKey, in.message))

\* C23 as claimed: verification against a public key and network parameters hands to
\* the address verification the address of the key in the encoding the header announces
\* (uncompressed P2PKH for 27..30, compressed P2PKH for 31..34, P2SH-P2WPKH for 35..38,
\* P2WPKH for 39..42), so a genuine signature of the key verifies as true in each of the
\* four ranges.
C23_DerivesHeaderClass ==
    \A base \in ClassBases :
        IsGenuinePubKeyCall(base)
            => /\ derivedAddress(in.pubKey, in.net) = AddressOfClass(in.pubKey, base, in.net)
               /\ ret = Pair(TRUE, Nil)

====
